---- MODULE Spec2Model ----
(***************************************************************************)
(* Model of libnl/msg.py: netlink message buffers (allocation, inheritance,*)
(* conversion, append, header setters), the size arithmetic, the flag      *)
(* decoder and the diagnostic dump.                                        *)
(*                                                                         *)
(* Bytes are abstracted by their lengths; every integer the code computes  *)
(* is computed here the same way.  Python's None is the empty sequence <<>>*)
(* and an object reference that is present is a one-element sequence.      *)
(***************************************************************************)
EXTENDS Integers, Sequences, FiniteSets, TLC

VARIABLES
    default_msg_size,   \* module global default_msg_size (msg.py:32, 225)
    msgs,               \* the nl_msg objects allocated so far, in order
    last,               \* the most recent call: operation, arguments, result
    last_default_arg,   \* <<n>> once nlmsg_set_default_size(n) was called
    input,              \* arguments of the pure function / dump under check
    output,             \* its result
    log                 \* lines written to _LOGGER.debug by the dump

vars == <<default_msg_size, msgs, last, last_default_arg, input, output, log>>

----------------------------------------------------------------------------
(* Bounds of the model *)

MaxMsgs == 1
MaxAppends == 2
MaxPayload == 40
MaxNlmsgLen == 48
MaxHdrLen == 9
MaxFlags == 65535

----------------------------------------------------------------------------
(* Constants imported by msg.py *)

NLMSG_ALIGNTO == 4
NLMSG_HDRLEN == 16
nlmsghdr_SIZEOF == 16
nlmsgerr_SIZEOF == 20
GENL_HDRLEN == 4
NETLINK_GENERIC == 16
NLMSG_NOOP == 1
NLMSG_ERROR == 2
NLMSG_DONE == 3
NLMSG_OVERRUN == 4
PAGE_SIZE == 4096

None == <<>>
Some(x) == <<x>>

Max(a, b) == IF a >= b THEN a ELSE b

RECURSIVE BitAnd(_, _)
BitAnd(a, b) ==
    IF a = 0 \/ b = 0 THEN 0
    ELSE (a % 2) * (b % 2) + 2 * BitAnd(a \div 2, b \div 2)

\* a & ~b for non-negative a, b
AndNot(a, b) == a - BitAnd(a, b)

\* ~b restricted to the 31 value bits of the integers the model uses
\* (Python integers are unbounded; every length here is below 2^31)
BitNot(b) == 2147483647 - b

\* NLMSG_ALIGN(len) = (len + NLMSG_ALIGNTO - 1) & ~(NLMSG_ALIGNTO - 1)
NLMSG_ALIGN(len) ==
    BitAnd(len + NLMSG_ALIGNTO - 1, BitNot(NLMSG_ALIGNTO - 1))

----------------------------------------------------------------------------
(* Size arithmetic *)

nlmsg_size(payload) == NLMSG_HDRLEN + payload

nlmsg_msg_size(payload) == nlmsg_size(payload)

nlmsg_total_size_unpadded(payload) == nlmsg_msg_size(payload)

nlmsg_total_size(payload) == NLMSG_ALIGN(nlmsg_msg_size(payload))

nlmsg_datalen(nlh) == nlh.nlmsg_len - NLMSG_HDRLEN

nlmsg_len(nlh) == nlmsg_datalen(nlh)

nlmsg_attrlen(nlh, hdrlen) == Max(nlmsg_len(nlh) - NLMSG_ALIGN(hdrlen), 0)

nlmsg_valid_hdr_strict(nlh, hdrlen) == ~(nlh.nlmsg_len <= nlmsg_msg_size(hdrlen))

nlmsg_valid_hdr(nlh, hdrlen) == ~(nlh.nlmsg_len < nlmsg_msg_size(hdrlen))

----------------------------------------------------------------------------
(* Flag decoding *)

all_flags == <<
    [k |-> "REQUEST", v |-> 1],
    [k |-> "MULTI",   v |-> 2],
    [k |-> "ACK",     v |-> 4],
    [k |-> "ECHO",    v |-> 8],
    [k |-> "ROOT",    v |-> 256],
    [k |-> "MATCH",   v |-> 512],
    [k |-> "ATOMIC",  v |-> 1024],
    [k |-> "REPLACE", v |-> 256],
    [k |-> "EXCL",    v |-> 512],
    [k |-> "CREATE",  v |-> 1024],
    [k |-> "APPEND",  v |-> 2048] >>

HexDigits == <<"0", "1", "2", "3", "4", "5", "6", "7",
               "8", "9", "a", "b", "c", "d", "e", "f">>

\* '{0:x}'.format(n)
RECURSIVE FormatHex(_)
FormatHex(n) ==
    IF n < 16 THEN HexDigits[n + 1]
    ELSE FormatHex(n \div 16) \o HexDigits[(n % 16) + 1]

\* ','.join(items)
RECURSIVE Join(_)
Join(items) ==
    IF Len(items) = 0 THEN ""
    ELSE IF Len(items) = 1 THEN items[1]
    ELSE items[1] \o "," \o Join(Tail(items))

\* a decoder that does not clear the bit it has just named
RECURSIVE flags_loop_keep(_, _, _)
flags_loop_keep(i, flags, print_flags) ==
    IF i > Len(all_flags) THEN [flags |-> flags, print_flags |-> print_flags]
    ELSE IF BitAnd(flags, all_flags[i].v) = 0
         THEN flags_loop_keep(i + 1, flags, print_flags)
         ELSE flags_loop_keep(i + 1, flags, Append(print_flags, all_flags[i].k))

\* the for loop of nl_nlmsg_flags2str from table entry i on
RECURSIVE flags_loop(_, _, _)
flags_loop(i, flags, print_flags) ==
    IF i > Len(all_flags) THEN [flags |-> flags, print_flags |-> print_flags]
    ELSE IF BitAnd(flags, all_flags[i].v) = 0
         THEN flags_loop(i + 1, flags, print_flags)
         ELSE flags_loop(i + 1, AndNot(flags, all_flags[i].v),
                         Append(print_flags, all_flags[i].k))

\* the list print_flags when nl_nlmsg_flags2str reaches its return
print_flags_of(flags) ==
    LET r == flags_loop(1, flags, <<>>)
    IN  IF r.flags # 0
        THEN Append(r.print_flags, "0x" \o FormatHex(r.flags))
        ELSE r.print_flags

nl_nlmsg_flags2str(flags) == Join(print_flags_of(flags))

----------------------------------------------------------------------------
(* Headers and messages *)

\* nlmsghdr with every field zero and no payload
ZeroHdr ==
    [nlmsg_len |-> 0, nlmsg_type |-> 0, nlmsg_flags |-> 0,
     nlmsg_seq |-> 0, nlmsg_pid |-> 0, payload |-> <<>>]

NoCall == [op |-> "none", idx |-> 0, arg |-> None, hdr |-> None, hdr_after |-> None, ret |-> 0]

IdleBuffers ==
    /\ default_msg_size = PAGE_SIZE
    /\ msgs = <<>>
    /\ last = NoCall
    /\ last_default_arg = None

----------------------------------------------------------------------------
(* Message buffer operations *)

\* The default of nlmsg_alloc's parameter len_: Python evaluates the default
\* expression once, when the def statement at line 154 runs, so it is the
\* value default_msg_size had at import, resource.getpagesize().
nlmsg_alloc_len_default == PAGE_SIZE

nlmsg_alloc_unclamped(len_) ==
    [nm_refcnt |-> 1,
     nm_nlh |-> [ZeroHdr EXCEPT !.nlmsg_len = nlmsg_total_size(0)],
     nm_protocol |-> -1,
     nm_size |-> len_]

nlmsg_alloc(len_) ==
    LET len1 == Max(nlmsghdr_SIZEOF, len_)
    IN  [nm_refcnt |-> 1,
         nm_nlh |-> [ZeroHdr EXCEPT !.nlmsg_len = nlmsg_total_size(0)],
         nm_protocol |-> -1,
         nm_size |-> len1]

\* copies the whole template header, total length and payload included
nlmsg_inherit_whole(hdr) ==
    LET nm == nlmsg_alloc(nlmsg_alloc_len_default)
    IN  [nm |-> IF hdr # None THEN [nm EXCEPT !.nm_nlh = hdr[1]] ELSE nm,
         hdr |-> hdr]

\* hdr is None or Some(header); a header object is truthy.  The result is
\* the new message nm and the template object as the call leaves it (the
\* code only reads hdr).
nlmsg_inherit(hdr) ==
    LET nm == nlmsg_alloc(nlmsg_alloc_len_default)
    IN  [nm |-> IF hdr # None
                THEN [nm EXCEPT !.nm_nlh.nlmsg_type = hdr[1].nlmsg_type,
                                !.nm_nlh.nlmsg_flags = hdr[1].nlmsg_flags,
                                !.nm_nlh.nlmsg_seq = hdr[1].nlmsg_seq,
                                !.nm_nlh.nlmsg_pid = hdr[1].nlmsg_pid]
                ELSE nm,
         hdr |-> hdr]

nlmsg_alloc_simple(nlmsgtype, flags) ==
    LET nlh == [ZeroHdr EXCEPT !.nlmsg_type = nlmsgtype,
                               !.nlmsg_flags = flags]
    IN  nlmsg_inherit(Some(nlh)).nm

nlmsg_set_default_size(max_) == Max(nlmsg_total_size(0), max_)

nlmsg_convert(hdr) ==
    [nlmsg_alloc(nlmsg_alloc_len_default) EXCEPT !.nm_nlh = hdr]

\* the message after the call and the value returned
nlmsg_append(msg, data) ==
    [msg |-> [msg EXCEPT !.nm_nlh.payload = Append(@, data)], ret |-> 0]

\* every message of the model has a header, so the branch that creates a
\* missing one (lines 278-279) is never taken
nlmsg_put(n, pid, seq, type_, flags) ==
    [n EXCEPT !.nm_nlh.nlmsg_type = type_,
              !.nm_nlh.nlmsg_flags = flags,
              !.nm_nlh.nlmsg_pid = pid,
              !.nm_nlh.nlmsg_seq = seq]

nlmsg_hdr(msg) == msg.nm_nlh

nlmsg_set_proto(msg, protocol) == [msg EXCEPT !.nm_protocol = protocol]

RECURSIVE SumSeq(_)
SumSeq(q) == IF Len(q) = 0 THEN 0 ELSE Head(q) + SumSeq(Tail(q))

\* header plus payload bytes: the total length of the logical message
LogicalLen(msg) == nlmsg_size(SumSeq(msg.nm_nlh.payload))

----------------------------------------------------------------------------
(* Arguments the callers of the buffer operations pass *)

ExplicitLens == {8, 64}
DefaultSizes == {8, 128}
DataLens == {10, 60}
Protocols == {NETLINK_GENERIC}

TemplateHdr ==
    [nlmsg_len |-> 36, nlmsg_type |-> 5, nlmsg_flags |-> 5,
     nlmsg_seq |-> 1, nlmsg_pid |-> 7, payload |-> <<20>>]

\* headers received from a socket: a short acknowledgement and a message
\* longer than a page
RawHdrs ==
    {[nlmsg_len |-> 36, nlmsg_type |-> NLMSG_ERROR, nlmsg_flags |-> 0,
      nlmsg_seq |-> 1, nlmsg_pid |-> 7, payload |-> <<20>>],
     [nlmsg_len |-> 8192, nlmsg_type |-> 5, nlmsg_flags |-> 2,
      nlmsg_seq |-> 1, nlmsg_pid |-> 7, payload |-> <<8176>>]}

\* templates for nlmsg_inherit: none, a blank header, a filled header
Templates == {None, Some(ZeroHdr), Some(TemplateHdr)}

----------------------------------------------------------------------------
(* Specification of the message buffers *)

Init ==
    /\ IdleBuffers
    /\ input = None
    /\ output = None
    /\ log = <<>>

Call_nlmsg_alloc ==
    /\ Len(msgs) < MaxMsgs
    /\ \E len_ \in ExplicitLens :
          /\ msgs' = Append(msgs, nlmsg_alloc(len_))
          /\ last' = [op |-> "nlmsg_alloc", idx |-> Len(msgs) + 1,
                      arg |-> Some(len_), hdr |-> None, hdr_after |-> None, ret |-> 0]
    /\ UNCHANGED <<default_msg_size, last_default_arg, input, output, log>>

Call_nlmsg_alloc_default ==
    /\ Len(msgs) < MaxMsgs
    /\ msgs' = Append(msgs, nlmsg_alloc(nlmsg_alloc_len_default))
    /\ last' = [op |-> "nlmsg_alloc", idx |-> Len(msgs) + 1,
                arg |-> None, hdr |-> None, hdr_after |-> None, ret |-> 0]
    /\ UNCHANGED <<default_msg_size, last_default_arg, input, output, log>>

Call_nlmsg_inherit ==
    /\ Len(msgs) < MaxMsgs
    /\ \E hdr \in Templates :
          /\ msgs' = Append(msgs, nlmsg_inherit(hdr).nm)
          /\ last' = [op |-> "nlmsg_inherit", idx |-> Len(msgs) + 1,
                      arg |-> None, hdr |-> hdr,
                      hdr_after |-> nlmsg_inherit(hdr).hdr, ret |-> 0]
    /\ UNCHANGED <<default_msg_size, last_default_arg, input, output, log>>

Call_nlmsg_alloc_simple ==
    /\ Len(msgs) < MaxMsgs
    /\ \E t \in {NLMSG_ERROR}, f \in {5} :
          /\ msgs' = Append(msgs, nlmsg_alloc_simple(t, f))
          /\ last' = [op |-> "nlmsg_alloc_simple", idx |-> Len(msgs) + 1,
                      arg |-> Some(t), hdr |-> None, hdr_after |-> None, ret |-> 0]
    /\ UNCHANGED <<default_msg_size, last_default_arg, input, output, log>>

Call_nlmsg_set_default_size ==
    /\ \E max_ \in DefaultSizes :
          /\ default_msg_size' = nlmsg_set_default_size(max_)
          /\ last_default_arg' = Some(max_)
          /\ last' = [op |-> "nlmsg_set_default_size", idx |-> 0,
                      arg |-> Some(max_), hdr |-> None, hdr_after |-> None, ret |-> 0]
    /\ UNCHANGED <<msgs, input, output, log>>

Call_nlmsg_convert ==
    /\ Len(msgs) < MaxMsgs
    /\ \E hdr \in RawHdrs :
          /\ msgs' = Append(msgs, nlmsg_convert(hdr))
          /\ last' = [op |-> "nlmsg_convert", idx |-> Len(msgs) + 1,
                      arg |-> None, hdr |-> Some(hdr),
                      hdr_after |-> Some(hdr), ret |-> 0]
    /\ UNCHANGED <<default_msg_size, last_default_arg, input, output, log>>

Call_nlmsg_append ==
    /\ \E i \in DOMAIN msgs, data \in DataLens :
          /\ Len(msgs[i].nm_nlh.payload) < MaxAppends
          /\ LET r == nlmsg_append(msgs[i], data)
             IN  /\ msgs' = [msgs EXCEPT ![i] = r.msg]
                 /\ last' = [op |-> "nlmsg_append", idx |-> i,
                             arg |-> Some(data), hdr |-> None, hdr_after |-> None, ret |-> r.ret]
    /\ UNCHANGED <<default_msg_size, last_default_arg, input, output, log>>

Call_nlmsg_put ==
    /\ \E i \in DOMAIN msgs :
          /\ msgs' = [msgs EXCEPT ![i] = nlmsg_put(msgs[i], 9, 3, 6, 1)]
          /\ last' = [op |-> "nlmsg_put", idx |-> i,
                      arg |-> None, hdr |-> None, hdr_after |-> None, ret |-> 0]
    /\ UNCHANGED <<default_msg_size, last_default_arg, input, output, log>>

Call_nlmsg_set_proto ==
    /\ \E i \in DOMAIN msgs, protocol \in Protocols :
          /\ msgs' = [msgs EXCEPT ![i] = nlmsg_set_proto(msgs[i], protocol)]
          /\ last' = [op |-> "nlmsg_set_proto", idx |-> i,
                      arg |-> Some(protocol), hdr |-> None, hdr_after |-> None, ret |-> 0]
    /\ UNCHANGED <<default_msg_size, last_default_arg, input, output, log>>

Next ==
    \/ Call_nlmsg_alloc
    \/ Call_nlmsg_alloc_default
    \/ Call_nlmsg_inherit
    \/ Call_nlmsg_alloc_simple
    \/ Call_nlmsg_set_default_size
    \/ Call_nlmsg_convert
    \/ Call_nlmsg_append
    \/ Call_nlmsg_put
    \/ Call_nlmsg_set_proto

Spec == Init /\ [][Next]_vars

----------------------------------------------------------------------------
(* Diagnostic dump.  A line is one _LOGGER.debug call: its format (tag),   *)
(* its integer argument and its string argument.  A function that can      *)
(* raise returns the lines it wrote and whether it raised.                 *)

Line(tag, val, str) == [tag |-> tag, val |-> val, str |-> str]

BEGIN_BANNER == Line("BEGIN NETLINK MESSAGE", 0, "")
END_BANNER == Line("END NETLINK MESSAGE", 0, "")

nl_msgtypes ==
    [t \in {NLMSG_NOOP, NLMSG_ERROR, NLMSG_DONE, NLMSG_OVERRUN} |->
        CASE t = NLMSG_NOOP -> "NOOP"
          [] t = NLMSG_ERROR -> "ERROR"
          [] t = NLMSG_DONE -> "DONE"
          [] t = NLMSG_OVERRUN -> "OVERRUN"]

\* utils.__type2str: the name in the table, else the numeric value
type2str(type_, tbl) ==
    IF type_ \in DOMAIN tbl THEN tbl[type_] ELSE ToString(type_)

nl_nlmsgtype2str(type_) == type2str(type_, nl_msgtypes)

RECURSIVE Indent(_)
Indent(prefix) == IF prefix = 0 THEN "" ELSE "  " \o Indent(prefix - 1)

\* the chunks of dump_hex from offset i on: one line per chunk of at most
\* limit bytes
RECURSIVE hex_lines(_, _, _, _)
hex_lines(i, len, limit, prefix) ==
    IF i >= len THEN <<>>
    ELSE <<Line("hex", IF len - i < limit THEN len - i ELSE limit,
                Indent(prefix))>>
         \o hex_lines(i + limit, len, limit, prefix)

\* start is the number of bytes to dump
dump_hex(start, prefix) == hex_lines(0, start, 16 - (prefix * 2), prefix)

\* ops: what nl_cache_ops_associate_safe(msg.nm_protocol, nlh.nlmsg_type)
\* returns, mt: what nl_msgtype_lookup(ops, nlh.nlmsg_type) returns
print_hdr(msg, ops, mt) ==
    LET nlh == nlmsg_hdr(msg)
        len_line == <<Line(".nlmsg_len", nlh.nlmsg_len, "")>>
        buf == IF ops # None
               THEN ops[1].co_name \o "::" \o mt[1].mt_name
               ELSE nl_nlmsgtype2str(nlh.nlmsg_type)
    IN  IF ops # None /\ mt = None
        THEN [lines |-> len_line, raised |-> TRUE]
        ELSE [lines |-> len_line \o
                        <<Line(".type", nlh.nlmsg_type, buf),
                          Line(".flags", nlh.nlmsg_flags,
                               nl_nlmsg_flags2str(nlh.nlmsg_flags)),
                          Line(".seq", nlh.nlmsg_seq, ""),
                          Line(".port", nlh.nlmsg_pid, "")>>,
              raised |-> FALSE]

print_genl_hdr ==
    <<Line("[GENERIC NETLINK HEADER]", GENL_HDRLEN, ""),
      Line(".cmd", 0, ""), Line(".version", 0, ""), Line(".unused", 0, "")>>

\* datalen: number of bytes nlmsg_data(hdr) holds; the result is the lines
\* written and payloadlen.value on return
print_genl_msg(datalen, ops, payloadlen) ==
    IF payloadlen < GENL_HDRLEN
    THEN [lines |-> <<>>, payloadlen |-> payloadlen]
    ELSE LET p1 == payloadlen - GENL_HDRLEN
             hdrsize == IF ops # None THEN ops[1].co_hdrsize - GENL_HDRLEN
                        ELSE 0
         IN  IF ops # None /\ hdrsize > 0 /\ p1 >= hdrsize
             THEN [lines |-> print_genl_hdr
                             \o <<Line("[HEADER]", hdrsize, "")>>
                             \o dump_hex(datalen, 0),
                   payloadlen |-> p1 - hdrsize]
             ELSE [lines |-> print_genl_hdr, payloadlen |-> p1]

dump_attr(attr, prefix) == dump_hex(attr.alen, prefix)

\* attrs is the sequence nla_for_each_attr yields; each attribute carries
\* its type, its payload length, the nested flag and its inner attributes
RECURSIVE dump_attrs(_, _)
dump_attrs(attrs, prefix) ==
    IF Len(attrs) = 0 THEN <<>>
    ELSE LET nla == Head(attrs)
             announce ==
                 IF nla.nla_type = 0
                 THEN Line("[ATTR PADDING]", nla.alen, Indent(prefix))
                 ELSE Line("[ATTR " \o ToString(nla.nla_type)
                               \o (IF nla.nested THEN " NESTED" ELSE "")
                               \o "]",
                           nla.alen, Indent(prefix))
         IN  <<announce>>
             \o (IF nla.nested THEN dump_attrs(nla.inner, prefix + 1)
                 ELSE dump_attr(nla, prefix))
             \o dump_attrs(Tail(attrs), prefix)

\* err: the nlmsgerr decoded from the payload (error code and the header of
\* the original request).  errmsg is a fresh message, its nm_protocol is -1
\* (unset), and no cache operations are registered for the unset protocol.
dump_error_msg(msg, err) ==
    LET hdr == nlmsg_hdr(msg)
        banner == <<Line("[ERRORMSG]", nlmsgerr_SIZEOF, "")>>
    IN  IF nlmsg_len(hdr) >= nlmsgerr_SIZEOF
        THEN LET errmsg == nlmsg_inherit(Some(err.msg)).nm
                 ph == print_hdr(errmsg, None, None)
             IN  [lines |-> banner
                            \o <<Line(".error", err.error, "strerror"),
                                 Line("[ORIGINAL MESSAGE]", nlmsghdr_SIZEOF, "")>>
                            \o ph.lines,
                  raised |-> ph.raised]
        ELSE [lines |-> banner, raised |-> FALSE]

print_msg(msg, hdr, ops, attrs) ==
    LET len0 == nlmsg_len(hdr)
        attrlen == IF ops # None THEN nlmsg_attrlen(hdr, ops[1].co_hdrsize)
                   ELSE 0
        p1 == len0 - attrlen
        genl == IF msg.nm_protocol = NETLINK_GENERIC
                THEN print_genl_msg(len0, ops, p1)
                ELSE [lines |-> <<>>, payloadlen |-> p1]
        p2 == genl.payloadlen
    IN  genl.lines
        \o (IF p2 # 0
            THEN <<Line("[PAYLOAD]", p2, "")>> \o dump_hex(Max(len0, p2), 0)
            ELSE <<>>)
        \o (IF attrlen # 0 THEN dump_attrs(attrs, 0) ELSE <<>>)

\* d: the message with what the collaborators return for it
nl_msg_dump(d) ==
    LET msg == d.msg
        hdr == nlmsg_hdr(msg)
        head == <<BEGIN_BANNER, Line("[NETLINK HEADER]", nlmsghdr_SIZEOF, "")>>
        ph == print_hdr(msg, d.ops, d.mt)
        de == dump_error_msg(msg, d.err)
    IN  IF ph.raised
        THEN [lines |-> head \o ph.lines, raised |-> TRUE]
        ELSE IF hdr.nlmsg_type = NLMSG_ERROR
        THEN IF de.raised
             THEN [lines |-> head \o ph.lines \o de.lines, raised |-> TRUE]
             ELSE [lines |-> head \o ph.lines \o de.lines \o <<END_BANNER>>,
                   raised |-> FALSE]
        ELSE IF nlmsg_len(hdr) > 0
        THEN [lines |-> head \o ph.lines
                        \o print_msg(msg, hdr, d.ops, d.attrs)
                        \o <<END_BANNER>>,
              raised |-> FALSE]
        ELSE [lines |-> head \o ph.lines \o <<END_BANNER>>, raised |-> FALSE]

----------------------------------------------------------------------------
(* Messages handed to the dump and what the collaborators return for them *)

DumpLens == {12, 16, 20, 36, 40}
DumpTypes == {NLMSG_ERROR, NLMSG_DONE, 5}
DumpFlags == {0, 21}
DumpProtocols == {-1, 0, NETLINK_GENERIC}

Leaf(t, n) == [nla_type |-> t, alen |-> n, nested |-> FALSE, inner |-> <<>>]

AttrStreams ==
    {<<>>,
     <<Leaf(1, 4), Leaf(0, 0)>>,
     <<[nla_type |-> 2, alen |-> 24, nested |-> TRUE,
        inner |-> <<Leaf(3, 4), Leaf(4, 20)>>]>>}

\* cache operations found for (protocol, type), or None; none are found
\* for the unset protocol -1
OpsResults ==
    {None,
     Some([co_name |-> "genl/family", co_hdrsize |-> 0]),
     Some([co_name |-> "nl80211", co_hdrsize |-> 4]),
     Some([co_name |-> "route/link", co_hdrsize |-> 16])}

\* message type found in the operations' table, or None
MtResults == {None, Some([mt_name |-> "new"])}

ErrPayloads ==
    {[error |-> -2, msg |-> [TemplateHdr EXCEPT !.payload = <<>>]]}

AllDumpInputs ==
    {[msg |-> [nlmsg_alloc(nlmsg_alloc_len_default) EXCEPT
                   !.nm_protocol = p,
                   !.nm_nlh.nlmsg_len = l,
                   !.nm_nlh.nlmsg_type = t,
                   !.nm_nlh.nlmsg_flags = f],
      err |-> e, attrs |-> a, ops |-> o, mt |-> m] :
        p \in DumpProtocols, l \in DumpLens, t \in DumpTypes, f \in DumpFlags,
        e \in ErrPayloads, a \in AttrStreams, o \in OpsResults,
        m \in MtResults}

DumpInputs ==
    {d \in AllDumpInputs : d.msg.nm_protocol = -1 => d.ops = None}

----------------------------------------------------------------------------
(* Specification of the dump *)

InitDump ==
    /\ IdleBuffers
    /\ input \in DumpInputs
    /\ output = [op |-> "none", raised |-> FALSE]
    /\ log = <<>>

Call_nl_msg_dump ==
    /\ log' = nl_msg_dump(input).lines
    /\ output' = [op |-> "nl_msg_dump", raised |-> nl_msg_dump(input).raised]
    /\ UNCHANGED <<default_msg_size, msgs, last, last_default_arg, input>>

NextDump == Call_nl_msg_dump

SpecDump == InitDump /\ [][NextDump]_vars

----------------------------------------------------------------------------
(* Specification of the size arithmetic: the inputs are drawn in the        *)
(* initial state and each action applies one function to them.              *)

InitSize ==
    /\ IdleBuffers
    /\ input \in [payload : 0..MaxPayload,
                  nlh : [nlmsg_len : 0..MaxNlmsgLen],
                  hdrlen : 0..MaxHdrLen]
    /\ output = [op |-> "none", ret |-> 0, ok |-> FALSE]
    /\ log = <<>>

Call_nlmsg_size ==
    /\ output' = [op |-> "nlmsg_size", ret |-> nlmsg_size(input.payload),
                  ok |-> FALSE]
    /\ UNCHANGED <<default_msg_size, msgs, last, last_default_arg, input, log>>

Call_nlmsg_total_size ==
    /\ output' = [op |-> "nlmsg_total_size",
                  ret |-> nlmsg_total_size(input.payload), ok |-> FALSE]
    /\ UNCHANGED <<default_msg_size, msgs, last, last_default_arg, input, log>>

Call_nlmsg_datalen ==
    /\ output' = [op |-> "nlmsg_datalen", ret |-> nlmsg_datalen(input.nlh),
                  ok |-> FALSE]
    /\ UNCHANGED <<default_msg_size, msgs, last, last_default_arg, input, log>>

Call_nlmsg_attrlen ==
    /\ output' = [op |-> "nlmsg_attrlen",
                  ret |-> nlmsg_attrlen(input.nlh, input.hdrlen), ok |-> FALSE]
    /\ UNCHANGED <<default_msg_size, msgs, last, last_default_arg, input, log>>

Call_nlmsg_valid_hdr ==
    /\ output' = [op |-> "nlmsg_valid_hdr", ret |-> 0,
                  ok |-> nlmsg_valid_hdr(input.nlh, input.hdrlen)]
    /\ UNCHANGED <<default_msg_size, msgs, last, last_default_arg, input, log>>

NextSize ==
    \/ Call_nlmsg_size
    \/ Call_nlmsg_total_size
    \/ Call_nlmsg_datalen
    \/ Call_nlmsg_attrlen
    \/ Call_nlmsg_valid_hdr

SpecSize == InitSize /\ [][NextSize]_vars

----------------------------------------------------------------------------
(* Specification of the flag decoder *)

InitFlags ==
    /\ IdleBuffers
    /\ input \in [flags : 0..MaxFlags]
    /\ output = [op |-> "none", print_flags |-> <<>>, str |-> ""]
    /\ log = <<>>

Call_nl_nlmsg_flags2str ==
    /\ output' = [op |-> "nl_nlmsg_flags2str",
                  print_flags |-> print_flags_of(input.flags),
                  str |-> nl_nlmsg_flags2str(input.flags)]
    /\ UNCHANGED <<default_msg_size, msgs, last, last_default_arg, input, log>>

NextFlags == Call_nl_nlmsg_flags2str

SpecFlags == InitFlags /\ [][NextFlags]_vars

----------------------------------------------------------------------------
(* C5: for every payload length n >= 0, nlmsg_size(n) = 16 + n, and        *)
(* nlmsg_total_size(n) is a multiple of 4, is at least nlmsg_size(n) and   *)
(* exceeds it by less than 4.                                              *)
C5_SizeArithmetic ==
    /\ output.op = "nlmsg_size" => output.ret = 16 + input.payload
    /\ output.op = "nlmsg_total_size" =>
          /\ output.ret % 4 = 0
          /\ output.ret >= 16 + input.payload
          /\ output.ret - (16 + input.payload) < 4

C5_Witness ==
    /\ output.op = "nlmsg_total_size"
    /\ input.payload = 5
    /\ output.ret = 24

(* C6 as claimed: nlmsg_valid_hdr(nlh, s) is true if and only if           *)
(* nlh.nlmsg_len >= totalSize(s), the padded size of 16 + s.               *)
C6_ValidIffPaddedSize ==
    output.op = "nlmsg_valid_hdr" =>
        (output.ok <=> input.nlh.nlmsg_len >= ((16 + input.hdrlen + 3) \div 4) * 4)

(* C6 amended: nlmsg_valid_hdr(nlh, s) is true if and only if              *)
(* nlh.nlmsg_len >= 16 + s, the unpadded size.                             *)
C6_ValidIffUnpaddedSize ==
    output.op = "nlmsg_valid_hdr" =>
        (output.ok <=> input.nlh.nlmsg_len >= 16 + input.hdrlen)

C6_Witness ==
    /\ output.op = "nlmsg_valid_hdr"
    /\ input.hdrlen = 2
    /\ input.nlh.nlmsg_len = 18
    /\ output.ok

----------------------------------------------------------------------------
KnownValues == {all_flags[i].v : i \in DOMAIN all_flags}

IsFlagName(s) == \E i \in DOMAIN all_flags : all_flags[i].k = s

FlagIndex(s) == CHOOSE i \in DOMAIN all_flags : all_flags[i].k = s

BitSet(f, v) == (f \div v) % 2 = 1

\* the bits of f, of weight w upward, that no table entry names
RECURSIVE UnknownBits(_, _)
UnknownBits(f, w) ==
    IF f = 0 THEN 0
    ELSE (IF f % 2 = 1 /\ w \notin KnownValues THEN w ELSE 0)
         + UnknownBits(f \div 2, 2 * w)

(* C8: the decoded flag string lists names of set known bits in table      *)
(* order, every set known bit by exactly one name, then one hex literal    *)
(* holding exactly the bits no table entry names when there are any; the   *)
(* entries are comma-separated and flags = 0 gives the empty string.       *)
C8_FlagString ==
    output.op = "nl_nlmsg_flags2str" =>
        LET f == input.flags
            pf == output.print_flags
            rest == UnknownBits(f, 1)
            n == IF rest # 0 THEN Len(pf) - 1 ELSE Len(pf)
        IN  /\ n >= 0
            /\ \A p \in 1..n :
                  /\ IsFlagName(pf[p])
                  /\ BitSet(f, all_flags[FlagIndex(pf[p])].v)
            /\ \A p, q \in 1..n : p < q => FlagIndex(pf[p]) < FlagIndex(pf[q])
            /\ \A v \in KnownValues :
                  BitSet(f, v) =>
                      Cardinality({p \in 1..n :
                                      all_flags[FlagIndex(pf[p])].v = v}) = 1
            /\ rest # 0 => pf[Len(pf)] = "0x" \o FormatHex(rest)
            /\ output.str = Join(pf)
            /\ f = 0 => output.str = ""

C8_Witness ==
    /\ output.op = "nl_nlmsg_flags2str"
    /\ input.flags = 277
    /\ output.str = "REQUEST,ACK,ROOT,0x10"

----------------------------------------------------------------------------
(* C1: nlmsg_append fails (does not return 0) whenever the new total       *)
(* length, the total length before the call plus the length of the data,   *)
(* exceeds the capacity nm_size of the buffer.                             *)
C1_AppendFailsPastCapacity ==
    last.op = "nlmsg_append" =>
        (LogicalLen(msgs[last.idx]) > msgs[last.idx].nm_size => last.ret # 0)

(* C2: once nlmsg_set_default_size(n) was called, nlmsg_alloc() without an *)
(* explicit length returns a buffer of capacity max(nlmsg_total_size(0),n) *)
(* for the n of the latest such call; nlmsg_alloc(c) is unaffected.        *)
C2_DefaultCapacityUsed ==
    last.op = "nlmsg_alloc" =>
        /\ (last.arg = None /\ last_default_arg # None) =>
              msgs[last.idx].nm_size = Max(16, last_default_arg[1])
        /\ last.arg # None =>
              msgs[last.idx].nm_size = Max(16, last.arg[1])

(* C3: nlmsg_alloc(c) returns a buffer with reference count 1, protocol    *)
(* -1, capacity max(16, c), header total length nlmsg_total_size(0) = 16   *)
(* and header type, flags, sequence number and port all zero.              *)
C3_AllocResult ==
    (last.op = "nlmsg_alloc" /\ last.arg # None) =>
        LET m == msgs[last.idx]
        IN  /\ m.nm_refcnt = 1
            /\ m.nm_protocol = -1
            /\ m.nm_size = (IF last.arg[1] > 16 THEN last.arg[1] ELSE 16)
            /\ nlmsg_hdr(m).nlmsg_len = 16
            /\ nlmsg_hdr(m).nlmsg_type = 0
            /\ nlmsg_hdr(m).nlmsg_flags = 0
            /\ nlmsg_hdr(m).nlmsg_seq = 0
            /\ nlmsg_hdr(m).nlmsg_pid = 0

C3_Witness ==
    /\ last.op = "nlmsg_alloc"
    /\ last.arg = Some(8)
    /\ msgs[last.idx].nm_size = 16
    /\ msgs[last.idx].nm_refcnt = 1

(* C4: nlmsg_inherit(h) returns a fresh buffer whose header type, flags,   *)
(* sequence number and port are those of h, whose total length is          *)
(* nlmsg_total_size(0) = 16 whatever h's is, and whose payload is empty;   *)
(* h is left as it was; nlmsg_inherit(None) returns what nlmsg_alloc()     *)
(* returns.                                                                *)
C4_InheritResult ==
    last.op = "nlmsg_inherit" =>
        LET m == msgs[last.idx]
        IN  /\ last.hdr # None =>
                  /\ m.nm_nlh.nlmsg_type = last.hdr[1].nlmsg_type
                  /\ m.nm_nlh.nlmsg_flags = last.hdr[1].nlmsg_flags
                  /\ m.nm_nlh.nlmsg_seq = last.hdr[1].nlmsg_seq
                  /\ m.nm_nlh.nlmsg_pid = last.hdr[1].nlmsg_pid
                  /\ m.nm_nlh.nlmsg_len = 16
                  /\ m.nm_nlh.payload = <<>>
                  /\ m.nm_refcnt = 1
            /\ last.hdr_after = last.hdr
            /\ last.hdr = None => m = nlmsg_alloc(nlmsg_alloc_len_default)

C4_Witness ==
    /\ last.op = "nlmsg_inherit"
    /\ last.hdr = Some(TemplateHdr)
    /\ msgs[last.idx].nm_nlh.nlmsg_type = 5
    /\ msgs[last.idx].nm_nlh.nlmsg_pid = 7
    /\ msgs[last.idx].nm_nlh.nlmsg_len = 16

(* C10: no operation changes the capacity of an existing buffer, and every *)
(* buffer's header total length is at most its capacity.                   *)
C10_CapacityFixedAndRespected ==
    [][/\ \A i \in DOMAIN msgs : msgs'[i].nm_size = msgs[i].nm_size
       /\ \A i \in DOMAIN msgs' :
             msgs'[i].nm_nlh.nlmsg_len <= msgs'[i].nm_size]_vars

----------------------------------------------------------------------------
HeaderTags == <<".nlmsg_len", ".type", ".flags", ".seq", ".port">>

ErrorTags == {"[ERRORMSG]", ".error", "[ORIGINAL MESSAGE]"}

BannerTags == {BEGIN_BANNER.tag, END_BANNER.tag}

\* the lines between the top-level header and the last line
Section == SubSeq(log, 8, Len(log) - 1)

(* C7: the dump is the BEGIN banner, the header section (total length,     *)
(* type, flags, seq, port in that order), then the error section if the    *)
(* type is NLMSG_ERROR, else the payload section if the payload length is  *)
(* positive, else nothing, and the END banner as the last line.            *)
C7_DumpOrder ==
    output.op = "nl_msg_dump" =>
        LET hdr == input.msg.nm_nlh
        IN  /\ Len(log) >= 8
            /\ log[1] = BEGIN_BANNER
            /\ log[2].tag = "[NETLINK HEADER]"
            /\ \A k \in 1..5 : log[2 + k].tag = HeaderTags[k]
            /\ log[3].val = hdr.nlmsg_len
            /\ log[Len(log)] = END_BANNER
            /\ \A k \in 2..(Len(log) - 1) : log[k].tag \notin BannerTags
            /\ IF hdr.nlmsg_type = NLMSG_ERROR
               THEN /\ Len(Section) >= 1
                    /\ Section[1].tag = "[ERRORMSG]"
                    /\ \A k \in DOMAIN Section :
                          Section[k].tag \in ErrorTags
                              \cup {HeaderTags[j] : j \in 1..5}
               ELSE IF hdr.nlmsg_len - 16 > 0
               THEN \A k \in DOMAIN Section :
                       Section[k].tag \notin ErrorTags
                           \cup {HeaderTags[j] : j \in 1..5}
               ELSE Section = <<>>

(* C9: the dump never propagates a failure: it returns normally with the   *)
(* END banner as its last line, and for an error message whose payload is  *)
(* shorter than 20 bytes it writes no error code and no original header.   *)
C9_DumpNeverFails ==
    output.op = "nl_msg_dump" =>
        /\ ~output.raised
        /\ Len(log) >= 1
        /\ log[Len(log)] = END_BANNER
        /\ (input.msg.nm_nlh.nlmsg_type = NLMSG_ERROR
              /\ input.msg.nm_nlh.nlmsg_len - 16 < 20) =>
                 \A k \in DOMAIN log :
                     log[k].tag \notin {".error", "[ORIGINAL MESSAGE]"}

====
